---- MODULE Spec2Model ----
(***************************************************************************)
(* Interval timer service (rts/Timer.c) and hWaitForInput runtime support  *)
(* (libraries/base/cbits/inputReady.c) of the GHC runtime.                 *)
(*                                                                         *)
(* Two specifications share this module:                                   *)
(*   TimerSpec - initTimer/startTimer/stopTimer/exitTimer called from the  *)
(*               main thread, worker threads and the scheduler, with       *)
(*               handle_tick running in the ticker's own context;          *)
(*   FdSpec    - one OS thread calling fdReady(), with the clock, the      *)
(*               descriptor and the interruption channel as environment.   *)
(***************************************************************************)
EXTENDS Integers, Naturals, Sequences, FiniteSets, TLC

VARIABLES
    \* ---- rts/Timer.c ----
    cfg,                  \* RtsFlags and the build (THREADED_RTS, ...): immutable
    timer_disabled,       \* static StgWord timer_disabled
    ticks_to_ctxt_switch, \* static int ticks_to_ctxt_switch
    ticks_to_gc,          \* static int ticks_to_gc
    recent_activity,      \* shared with the scheduler
    ticker,               \* platform ticker: "none", "stopped", "running", "exited"
    mainPc,               \* main thread: boot -> inited -> (start_dec) -> up -> exited
    workerPc,             \* worker threads doing stopTimer()/startTimer() pairs
    tickPc,               \* handle_tick: "idle", or "stopTicker" inside its stopTimer()
    schedPc,              \* scheduler: "idle", or "startTicker" inside its startTimer()
    hist,                 \* history of the current idle period (observation only)
    \* ---- libraries/base/cbits/inputReady.c ----
    kind,                 \* which path fd takes: "poll", "select", "char", "disk", "pipe", "other"
    fdPc,                 \* position of the thread inside fdReady
    msecs,                \* argument: timeout in milliseconds, negative = indefinitely
    infinite,             \* bool infinite
    endTime,              \* Time endTime
    remaining,            \* Time remaining
    timeoutArg,           \* timeout handed to the native call in flight
    waitStart,            \* clock value when the native call in flight was entered
    ret,                  \* return value of fdReady
    errno,                \* errno / GetLastError() as left for the caller
    now,                  \* getProcessElapsedTime(): the monotonic clock
    ready,                \* descriptor readable/writable, or handle signalled
    interruptEvent,       \* rts_getInterruptOSThreadEvent() is signalled
    conin,                \* console input buffer: sequence of INPUT_RECORDs
    avail,                \* bytes in the pipe
    obs                   \* what the call did so far (observation only)

timerVars == <<cfg, timer_disabled, ticks_to_ctxt_switch, ticks_to_gc,
               recent_activity, ticker, mainPc, workerPc, tickPc, schedPc, hist>>

fdVars == <<kind, fdPc, msecs, infinite, endTime, remaining, timeoutArg,
            waitStart, ret, errno, now, ready, interruptEvent, conin, avail, obs>>

vars == <<timerVars, fdVars>>

\* ------------------------------------------------------------------ bounds
NumWorkers == 2
MaxTickInterval == 2
MaxCtxtSwitchTicks == 2
MaxIdleGCDelayTime == 2
MaxIdleTicks == 6
\* StgWord is an unsigned machine word; arithmetic on it is modulo StgWordMod
\* (2^64 in the build, scaled down here).
StgWordMod == 8

Workers == 1..NumWorkers

ACTIVITY_YES == "ACTIVITY_YES"
ACTIVITY_MAYBE_NO == "ACTIVITY_MAYBE_NO"
ACTIVITY_INACTIVE == "ACTIVITY_INACTIVE"
ACTIVITY_DONE_GC == "ACTIVITY_DONE_GC"

\* ------------------------------------------------------ platform ticker
\* initTicker(interval, handle_tick): the ticker exists and is not running.
initTicker == "stopped"
\* startTicker(): ticks are delivered from now on.
startTicker == "running"
\* stopTicker(): no tick is delivered any more.
stopTicker == "stopped"
\* exitTicker(wait)
exitTicker == "exited"

\* ------------------------------------------------------- atomic helpers
\* atomic_dec(&w): decrements and returns the new value.
atomic_dec(w) == (w - 1) % StgWordMod
\* atomic_inc(&w, 1): increments and returns the new value.
atomic_inc(w) == (w + 1) % StgWordMod

\* profiling keeps the timer running: PROFILING build with -h or -p given
ProfilingActive == cfg.profiling

\* ------------------------------------------------------------ Init
ObsInit == [callStart |-> 0, nativeCalls |-> 0, peeks |-> 0, sleeps |-> 0,
            lastRes |-> "none", failure |-> [api |-> "none", rc |-> "none"],
            exit |-> "none",
            arrived |-> << >>, discarded |-> << >>, readyAt |-> "never",
            delay |-> 0]

\* no fdReady call: the descriptor side at rest
FdQuiet ==
    /\ kind = "disk" /\ fdPc = "idle" /\ msecs = 0 /\ infinite = FALSE
    /\ endTime = 0 /\ remaining = 0 /\ timeoutArg = 0 /\ waitStart = 0
    /\ ret = 0 /\ errno = "none" /\ now = 0 /\ ready = FALSE
    /\ interruptEvent = FALSE /\ conin = << >> /\ avail = 0 /\ obs = ObsInit

\* no timer activity: the timer side at rest
TimerQuiet ==
    /\ cfg = [tickInterval |-> 0, ctxtSwitchTicks |-> 0, idleGCDelayTime |-> 0,
              doIdleGC |-> FALSE, profiling |-> FALSE, threaded |-> FALSE,
              mingw32 |-> FALSE, pthreadItimer |-> FALSE]
    /\ timer_disabled = 0 /\ ticks_to_ctxt_switch = 0 /\ ticks_to_gc = 0
    /\ recent_activity = ACTIVITY_YES /\ ticker = "none" /\ mainPc = "boot"
    /\ workerPc = [w \in Workers |-> "idle"] /\ tickPc = "idle"
    /\ schedPc = "idle"
    /\ hist = [idleTicks |-> 0, idleActions |-> 0, idleGCRequests |-> 0,
               wakeUps |-> 0, tickStops |-> 0,
               ticked |-> FALSE, calls |-> << >>, sinceCtxtSwitch |-> 0]

\* idleTicks .. tickStops count within the current idle period; ticked tells
\* whether a tick was ever delivered, calls lists what the pre-emption half of
\* the last tick called, sinceCtxtSwitch counts the ticks since the last
\* contextSwitchAllCapabilities().
HistInit == [idleTicks |-> 0, idleActions |-> 0, idleGCRequests |-> 0,
             wakeUps |-> 0, tickStops |-> 0,
             ticked |-> FALSE, calls |-> << >>, sinceCtxtSwitch |-> 0]

TimerInit ==
    /\ cfg \in [tickInterval: 0..MaxTickInterval,
                ctxtSwitchTicks: 0..MaxCtxtSwitchTicks,
                idleGCDelayTime: 0..MaxIdleGCDelayTime,
                doIdleGC: BOOLEAN, profiling: BOOLEAN, threaded: BOOLEAN,
                mingw32: BOOLEAN, pthreadItimer: BOOLEAN]
    /\ timer_disabled = 0
    /\ ticks_to_ctxt_switch = 0
    /\ ticks_to_gc = 0
    /\ recent_activity = ACTIVITY_YES
    /\ ticker = "none"
    /\ mainPc = "boot"
    /\ workerPc = [w \in Workers |-> "idle"]
    /\ tickPc = "idle"
    /\ schedPc = "idle"
    /\ hist = HistInit
    /\ FdQuiet

\* ------------------------------------------------------------ initTimer
\* variant: the counter starts at 0
initTimer_enabled ==
    /\ mainPc = "boot"
    /\ ticker' = IF cfg.tickInterval # 0 THEN initTicker ELSE ticker
    /\ timer_disabled' = 0
    /\ mainPc' = "inited"
    /\ UNCHANGED fdVars
    /\ UNCHANGED <<cfg, ticks_to_ctxt_switch, ticks_to_gc, recent_activity,
                   workerPc, tickPc, schedPc, hist>>

initTimer ==
    /\ mainPc = "boot"
    /\ ticker' = IF cfg.tickInterval # 0 THEN initTicker ELSE ticker
    /\ timer_disabled' = 1
    /\ mainPc' = "inited"
    /\ UNCHANGED fdVars
    /\ UNCHANGED <<cfg, ticks_to_ctxt_switch, ticks_to_gc, recent_activity,
                   workerPc, tickPc, schedPc, hist>>

\* ------------------------------------------------------------ startTimer
\* startTimer(), first half: the atomic decrement and the test of its result.
\* `go` tells the caller whether the second half (startTicker) is still to run.
startTimer_dec(go) ==
    /\ timer_disabled' = atomic_dec(timer_disabled)
    /\ go = (atomic_dec(timer_disabled) = 0)

\* startTimer(), second half: if (tickInterval != 0) startTicker();
startTimer_ticker ==
    ticker' = IF cfg.tickInterval # 0 THEN startTicker ELSE ticker

\* ------------------------------------------------------------ stopTimer
\* stopTimer(), first half: the atomic increment and the test of its result.
stopTimer_inc(go) ==
    /\ timer_disabled' = atomic_inc(timer_disabled)
    /\ go = (atomic_inc(timer_disabled) = 1)

\* variant: stopTicker() is called whatever the interval
stopTimer_ticker_unguarded == ticker' = stopTicker

\* stopTimer(), second half: if (tickInterval != 0) stopTicker();
stopTimer_ticker ==
    ticker' = IF cfg.tickInterval # 0 THEN stopTicker ELSE ticker

\* The main thread's first startTimer() after initTimer().
MainStartTimer ==
    /\ mainPc = "inited"
    /\ \E go \in BOOLEAN :
          /\ startTimer_dec(go)
          /\ mainPc' = IF go THEN "start_dec" ELSE "up"
    /\ UNCHANGED fdVars
    /\ UNCHANGED <<cfg, ticks_to_ctxt_switch, ticks_to_gc, recent_activity,
                   ticker, workerPc, tickPc, schedPc, hist>>

MainStartTicker ==
    /\ mainPc = "start_dec"
    /\ startTimer_ticker
    /\ mainPc' = "up"
    /\ UNCHANGED fdVars
    /\ UNCHANGED <<cfg, timer_disabled, ticks_to_ctxt_switch, ticks_to_gc,
                   recent_activity, workerPc, tickPc, schedPc, hist>>

\* A worker stops the timer temporarily: stopTimer() ... startTimer().
WorkerStopTimer(w) ==
    /\ mainPc = "up"
    /\ workerPc[w] = "idle"
    /\ \E go \in BOOLEAN :
          /\ stopTimer_inc(go)
          /\ workerPc' = [workerPc EXCEPT ![w] = IF go THEN "stop_inc" ELSE "stopped"]
    /\ UNCHANGED fdVars
    /\ UNCHANGED <<cfg, ticks_to_ctxt_switch, ticks_to_gc, recent_activity,
                   ticker, mainPc, tickPc, schedPc, hist>>

WorkerStopTicker(w) ==
    /\ workerPc[w] = "stop_inc"
    /\ stopTimer_ticker
    /\ workerPc' = [workerPc EXCEPT ![w] = "stopped"]
    /\ UNCHANGED fdVars
    /\ UNCHANGED <<cfg, timer_disabled, ticks_to_ctxt_switch, ticks_to_gc,
                   recent_activity, mainPc, tickPc, schedPc, hist>>

WorkerStartTimer(w) ==
    /\ workerPc[w] = "stopped"
    /\ \E go \in BOOLEAN :
          /\ startTimer_dec(go)
          /\ workerPc' = [workerPc EXCEPT ![w] = IF go THEN "start_dec" ELSE "idle"]
    /\ UNCHANGED fdVars
    /\ UNCHANGED <<cfg, ticks_to_ctxt_switch, ticks_to_gc, recent_activity,
                   ticker, mainPc, tickPc, schedPc, hist>>

WorkerStartTicker(w) ==
    /\ workerPc[w] = "start_dec"
    /\ startTimer_ticker
    /\ workerPc' = [workerPc EXCEPT ![w] = "idle"]
    /\ UNCHANGED fdVars
    /\ UNCHANGED <<cfg, timer_disabled, ticks_to_ctxt_switch, ticks_to_gc,
                   recent_activity, mainPc, tickPc, schedPc, hist>>

\* ------------------------------------------------------------ exitTimer
exitTimer ==
    /\ mainPc = "up"
    /\ \A w \in Workers : workerPc[w] = "idle"
    /\ tickPc = "idle" /\ schedPc = "idle"
    /\ ticker' = IF cfg.tickInterval # 0 THEN exitTicker ELSE ticker
    /\ mainPc' = "exited"
    /\ UNCHANGED fdVars
    /\ UNCHANGED <<cfg, timer_disabled, ticks_to_ctxt_switch, ticks_to_gc,
                   recent_activity, workerPc, tickPc, schedPc, hist>>

\* ------------------------------------------------------------ handle_tick
\* The pre-emption half of handle_tick: the new ticks_to_ctxt_switch and whether
\* contextSwitchAllCapabilities() is called on this tick.
\* variant: the counter has to pass below zero
CtxtSwitchDue_belowZero ==
    cfg.ctxtSwitchTicks > 0 /\ ticks_to_ctxt_switch - 1 < 0

CtxtSwitchDue ==
    cfg.ctxtSwitchTicks > 0 /\ ticks_to_ctxt_switch - 1 <= 0

\* variant: the counter is put back only once it is below zero
NextTicksToCtxtSwitch_lateReset ==
    IF cfg.ctxtSwitchTicks > 0
    THEN IF ticks_to_ctxt_switch - 1 < 0 THEN cfg.ctxtSwitchTicks
                                         ELSE ticks_to_ctxt_switch - 1
    ELSE ticks_to_ctxt_switch

NextTicksToCtxtSwitch ==
    IF cfg.ctxtSwitchTicks > 0
    THEN IF ticks_to_ctxt_switch - 1 <= 0 THEN cfg.ctxtSwitchTicks
                                          ELSE ticks_to_ctxt_switch - 1
    ELSE ticks_to_ctxt_switch

\* What follows contextSwitchAllCapabilities() in the same branch:
\* #if !defined(THREADED_RTS): SetEvent(rts_getInterruptOSThreadEvent()) on
\* mingw32_HOST_OS, interruptOSThreadTimer(*mainThreadId) with
\* USE_PTHREAD_FOR_ITIMER or on mingw32_HOST_OS.
InterruptCalls_none == << >>

InterruptCalls ==
    IF cfg.threaded THEN << >>
    ELSE (IF cfg.mingw32 THEN <<"SetEvent">> ELSE << >>)
         \o (IF cfg.pthreadItimer \/ cfg.mingw32
             THEN <<"interruptOSThreadTimer">> ELSE << >>)

\* the calls the pre-emption half of this tick makes, in order
TickCalls ==
    IF CtxtSwitchDue THEN <<"contextSwitchAllCapabilities">> \o InterruptCalls
    ELSE << >>

\* variant: the delay itself is taken as the number of ticks
IdleDelayTicks_undivided == cfg.idleGCDelayTime

\* ticks_to_gc = idleGCDelayTime / tickInterval
IdleDelayTicks == cfg.idleGCDelayTime \div cfg.tickInterval

\* case ACTIVITY_MAYBE_NO: if (ticks_to_gc == 0) ... else ticks_to_gc--
IdleCountdownExpired_offByOne == ticks_to_gc <= 1

IdleCountdownExpired == ticks_to_gc = 0

\* variant: the timer is stopped whether or not the profiler is sampling
KeepTimerForProfiling_never == FALSE

\* the timer is kept running for the profiler's samples
KeepTimerForProfiling == ProfilingActive

\* One delivery of the tick: the whole of handle_tick up to and including the
\* atomic increment of its stopTimer(); the stopTicker() that may follow is
\* TickStopTicker.
handle_tick ==
    /\ ticker = "running"
    /\ tickPc = "idle"
    /\ hist.idleTicks < MaxIdleTicks
    /\ ticks_to_ctxt_switch' = NextTicksToCtxtSwitch
    /\ CASE recent_activity = ACTIVITY_YES ->
              /\ recent_activity' = ACTIVITY_MAYBE_NO
              /\ ticks_to_gc' = IdleDelayTicks
              /\ UNCHANGED <<timer_disabled, tickPc>>
         [] recent_activity = ACTIVITY_MAYBE_NO /\ IdleCountdownExpired ->
              /\ UNCHANGED ticks_to_gc
              /\ IF cfg.doIdleGC
                 THEN /\ recent_activity' = ACTIVITY_INACTIVE
                      /\ UNCHANGED <<timer_disabled, tickPc>>
                 ELSE /\ recent_activity' = ACTIVITY_DONE_GC
                      /\ IF KeepTimerForProfiling
                         THEN UNCHANGED <<timer_disabled, tickPc>>
                         ELSE \E go \in BOOLEAN :
                                 /\ stopTimer_inc(go)
                                 /\ tickPc' = IF go THEN "stopTicker" ELSE "idle"
         [] recent_activity = ACTIVITY_MAYBE_NO /\ ~IdleCountdownExpired ->
              /\ ticks_to_gc' = ticks_to_gc - 1
              /\ UNCHANGED <<recent_activity, timer_disabled, tickPc>>
         [] OTHER ->
              UNCHANGED <<recent_activity, ticks_to_gc, timer_disabled, tickPc>>
    /\ LET acted == recent_activity = ACTIVITY_MAYBE_NO
                    /\ recent_activity' # ACTIVITY_MAYBE_NO
           gcReq == acted /\ recent_activity' = ACTIVITY_INACTIVE
       IN hist' = [hist EXCEPT
                  !.idleTicks = @ + 1,
                  !.idleActions = @ + (IF acted THEN 1 ELSE 0),
                  !.idleGCRequests = @ + (IF gcReq THEN 1 ELSE 0),
                  !.wakeUps = @ + (IF gcReq /\ cfg.threaded THEN 1 ELSE 0),
                  !.tickStops = @ + (IF timer_disabled' # timer_disabled THEN 1 ELSE 0),
                  !.ticked = TRUE,
                  !.calls = TickCalls,
                  !.sinceCtxtSwitch = IF TickCalls # << >> THEN 0
                                      ELSE IF cfg.ctxtSwitchTicks > 0 THEN @ + 1
                                      ELSE @]
    /\ UNCHANGED fdVars
    /\ UNCHANGED <<cfg, ticker, mainPc, workerPc, schedPc>>

TickStopTicker ==
    /\ tickPc = "stopTicker"
    /\ stopTimer_ticker
    /\ tickPc' = "idle"
    /\ UNCHANGED fdVars
    /\ UNCHANGED <<cfg, timer_disabled, ticks_to_ctxt_switch, ticks_to_gc,
                   recent_activity, mainPc, workerPc, schedPc, hist>>

\* ------------------------------------------------------------ scheduler
\* The scheduler notes activity: recent_activity becomes ACTIVITY_YES, and a
\* timer that handle_tick switched off (ACTIVITY_DONE_GC) is started again.
markActivity ==
    /\ mainPc = "up"
    /\ schedPc = "idle"
    /\ recent_activity # ACTIVITY_YES
    /\ recent_activity' = ACTIVITY_YES
    /\ IF recent_activity = ACTIVITY_DONE_GC /\ ~ProfilingActive
       THEN \E go \in BOOLEAN :
               /\ startTimer_dec(go)
               /\ schedPc' = IF go THEN "startTicker" ELSE "idle"
       ELSE UNCHANGED <<timer_disabled, schedPc>>
    /\ hist' = [HistInit EXCEPT !.ticked = hist.ticked, !.calls = hist.calls,
                                !.sinceCtxtSwitch = hist.sinceCtxtSwitch]
    /\ UNCHANGED fdVars
    /\ UNCHANGED <<cfg, ticks_to_ctxt_switch, ticks_to_gc, ticker, mainPc,
                   workerPc, tickPc>>

SchedStartTicker ==
    /\ schedPc = "startTicker"
    /\ startTimer_ticker
    /\ schedPc' = "idle"
    /\ UNCHANGED fdVars
    /\ UNCHANGED <<cfg, timer_disabled, ticks_to_ctxt_switch, ticks_to_gc,
                   recent_activity, mainPc, workerPc, tickPc, hist>>

\* ------------------------------------------------------------ TimerSpec
TimerNext ==
    \/ initTimer
    \/ MainStartTimer
    \/ MainStartTicker
    \/ \E w \in Workers : WorkerStopTimer(w)
    \/ \E w \in Workers : WorkerStopTicker(w)
    \/ \E w \in Workers : WorkerStartTimer(w)
    \/ \E w \in Workers : WorkerStartTicker(w)
    \/ handle_tick
    \/ TickStopTicker
    \/ markActivity
    \/ SchedStartTicker
    \/ exitTimer

TimerSpec == TimerInit /\ [][TimerNext]_vars

\* ------------------------------------------------------------ NestSpec
\* The same operations with every call running to its end before the next
\* one begins: one call is one step.
\* variant: the ticker is started by every startTimer()
startTimer_boolean ==
    /\ timer_disabled' = atomic_dec(timer_disabled)
    /\ startTimer_ticker

\* void startTimer(void), as a whole
startTimer ==
    \E go \in BOOLEAN :
        /\ startTimer_dec(go)
        /\ IF go THEN startTimer_ticker ELSE UNCHANGED ticker

\* void stopTimer(void), as a whole
stopTimer ==
    \E go \in BOOLEAN :
        /\ stopTimer_inc(go)
        /\ IF go THEN stopTimer_ticker ELSE UNCHANGED ticker

\* the first startTimer() after initTimer()
SeqFirstStart ==
    /\ mainPc = "inited"
    /\ startTimer
    /\ mainPc' = "up"
    /\ UNCHANGED fdVars
    /\ UNCHANGED <<cfg, ticks_to_ctxt_switch, ticks_to_gc, recent_activity,
                   workerPc, tickPc, schedPc, hist>>

\* a stopTimer() nested inside whatever stops are outstanding
SeqStop(w) ==
    /\ mainPc = "up"
    /\ workerPc[w] = "idle"
    /\ stopTimer
    /\ workerPc' = [workerPc EXCEPT ![w] = "stopped"]
    /\ UNCHANGED fdVars
    /\ UNCHANGED <<cfg, ticks_to_ctxt_switch, ticks_to_gc, recent_activity,
                   mainPc, tickPc, schedPc, hist>>

\* the startTimer() that ends the pair
SeqStart(w) ==
    /\ workerPc[w] = "stopped"
    /\ startTimer
    /\ workerPc' = [workerPc EXCEPT ![w] = "restarted"]
    /\ UNCHANGED fdVars
    /\ UNCHANGED <<cfg, ticks_to_ctxt_switch, ticks_to_gc, recent_activity,
                   mainPc, tickPc, schedPc, hist>>

NestNext ==
    \/ initTimer
    \/ SeqFirstStart
    \/ \E w \in Workers : SeqStop(w)
    \/ \E w \in Workers : SeqStart(w)

NestSpec == TimerInit /\ [][NestNext]_vars

\* =========================================================== inputReady.c
\* ------------------------------------------------------------------ bounds
\* The clock counts units of which UsTicks make a microsecond and UsPerMs
\* microseconds make a millisecond, MsPerSec milliseconds a second (Time is
\* in nanoseconds in the build: 1000, 1000, 1000; scaled down here).
UsTicks == 2
UsPerMs == 2
MsPerSec == 2
\* INT_MAX of <limits.h>, scaled down; long is as wide as int on Windows and
\* DWORD is unsigned of the same width, so INFINITE (0xFFFFFFFF) is 2*INT_MAX+1.
INT_MAX == 1
LONG_MAX == INT_MAX
INFINITE == 2 * INT_MAX + 1
\* largest timeout a caller passes, longest the clock runs past it
MaxMsecs == 3
MaxDelay == 2
\* console events arriving in one run
MaxEvents == 2

\* obs.nativeCalls counts up to here: more than any call makes that sees at
\* most MaxEvents events and MaxMsecs milliseconds
MaxNativeCalls == MaxEvents + MaxMsecs + 2

MsTicks == UsTicks * UsPerMs
MaxTime == MsTicks * (MaxMsecs + 1) + MaxDelay

Kinds == {"poll", "select", "char", "disk", "pipe", "other"}

\* C integer division and remainder (truncation toward zero), b > 0
CDiv(a, b) == IF a >= 0 THEN a \div b ELSE -((-a) \div b)
CMod(a, b) == a - b * CDiv(a, b)

MSToTime(ms) == ms * MsTicks
TimeToMS(t) == CDiv(t, MsTicks)
TimeToUS(t) == CDiv(t, UsTicks)

\* variant: the test of `remaining < 0` placed before the test of `infinite`
compute_poll_timeout_remainingFirst(inf, rem) ==
    IF rem < 0 THEN 0
    ELSE IF inf THEN -1
    ELSE IF rem > MSToTime(INT_MAX) THEN INT_MAX
    ELSE LET remaining_ms == TimeToMS(rem) IN
         IF rem # MSToTime(remaining_ms) THEN remaining_ms + 1
         ELSE remaining_ms

\* variant: a fractional millisecond is dropped
compute_poll_timeout_roundDown(inf, rem) ==
    IF inf THEN -1
    ELSE IF rem < 0 THEN 0
    ELSE IF rem > MSToTime(INT_MAX) THEN INT_MAX
    ELSE TimeToMS(rem)

\* variant: one millisecond is added whether or not there is a fraction
compute_poll_timeout_roundAlways(inf, rem) ==
    IF inf THEN -1
    ELSE IF rem < 0 THEN 0
    ELSE IF rem > MSToTime(INT_MAX) THEN INT_MAX
    ELSE TimeToMS(rem) + 1

\* ------------------------------------------------- compute_poll_timeout
compute_poll_timeout(inf, rem) ==
    IF inf THEN -1
    ELSE IF rem < 0 THEN 0
    ELSE IF rem > MSToTime(INT_MAX) THEN INT_MAX
    ELSE LET remaining_ms == TimeToMS(rem) IN
         IF rem # MSToTime(remaining_ms) THEN remaining_ms + 1
         ELSE remaining_ms

\* --------------------------------------- compute_windows_select_timeout
\* the pointer returned: NULL, or remaining_tv as filled in
compute_windows_select_timeout(inf, rem) ==
    IF inf THEN [null |-> TRUE, tv_sec |-> 0, tv_usec |-> 0]
    ELSE IF rem < 0 THEN [null |-> FALSE, tv_sec |-> 0, tv_usec |-> 0]
    ELSE IF rem > MSToTime(LONG_MAX)
         THEN [null |-> FALSE, tv_sec |-> LONG_MAX, tv_usec |-> LONG_MAX]
    ELSE [null |-> FALSE,
          tv_sec |-> CDiv(TimeToMS(rem), MsPerSec),
          tv_usec |-> CMod(TimeToUS(rem), MsPerSec * UsPerMs)]

\* ---------------------------------------- compute_WaitForObject_timeout
compute_WaitForObject_timeout(inf, rem) ==
    IF inf THEN INFINITE
    ELSE IF rem < 0 THEN 0
    ELSE IF rem >= MSToTime(INFINITE) THEN INFINITE - 1
    ELSE LET remaining_ms == TimeToMS(rem) % (INFINITE + 1) IN
         IF rem # MSToTime(remaining_ms) THEN remaining_ms + 1
         ELSE remaining_ms

\* ------------------------------------------------------ native primitives
\* Clock units a native call given `t` waits before it reports a timeout;
\* -1 when it never does.
PollTimeoutTicks(t) == IF t < 0 THEN -1 ELSE MSToTime(t)
SelectTimeoutTicks(tv) ==
    IF tv.null THEN -1
    ELSE tv.tv_sec * MsPerSec * MsTicks + tv.tv_usec * UsTicks
WaitTimeoutTicks(t) == IF t = INFINITE THEN -1 ELSE MSToTime(t)

\* the native call in flight may report a timeout now
TimedOut(ticks) == ticks >= 0 /\ now - waitStart >= ticks

\* INPUT_RECORD classes: a key-down with a character, a key-up, a key-down
\* without a character (shift, ...), and any event that is no KEY_EVENT.
KEY_EVENT == "KEY_EVENT"
Events == { [EventType |-> KEY_EVENT, bKeyDown |-> TRUE, AsciiChar |-> "a"],
            [EventType |-> KEY_EVENT, bKeyDown |-> FALSE, AsciiChar |-> "a"],
            [EventType |-> KEY_EVENT, bKeyDown |-> TRUE, AsciiChar |-> "NUL"],
            [EventType |-> "MOUSE_EVENT", bKeyDown |-> FALSE, AsciiChar |-> "NUL"] }

\* variant: any key-down counts, whatever its character
ProperKeypress_anyKeyDown(e) == e.EventType = KEY_EVENT /\ e.bKeyDown

\* buf[0].EventType == KEY_EVENT && bKeyDown && AsciiChar != '\0'
ProperKeypress(e) ==
    e.EventType = KEY_EVENT /\ e.bKeyDown /\ e.AsciiChar # "NUL"

\* ------------------------------------------------------------ environment
envVars == <<ready, interruptEvent, conin, avail>>
callVars == <<msecs, infinite, endTime, remaining, timeoutArg, waitStart, ret, errno>>

InCall == fdPc \notin {"idle", "done"}

\* "early": strictly before the deadline of the call; "late": not
BeforeDeadline ==
    IF fdPc \in {"idle", "start"} \/ infinite \/ now < endTime THEN "early" ELSE "late"

\* the thread is inside a native call that blocks
Blocked == fdPc \in {"in_poll", "in_select", "in_wait_char", "in_wait_gen", "in_sleep"}

\* clock units the native call in flight waits before reporting a timeout
NativeTimeoutTicks ==
    CASE fdPc = "in_poll" -> PollTimeoutTicks(timeoutArg)
      [] fdPc = "in_select" -> SelectTimeoutTicks(timeoutArg)
      [] fdPc = "in_sleep" -> MSToTime(timeoutArg)
      [] OTHER -> WaitTimeoutTicks(timeoutArg)

\* Time passes while the thread is blocked in a native call that has not
\* reached its timeout.
ClockTick ==
    /\ Blocked
    /\ ~TimedOut(NativeTimeoutTicks)
    /\ now < MaxTime
    /\ now' = now + 1
    /\ UNCHANGED <<kind, fdPc, callVars, envVars, obs>>
    /\ UNCHANGED timerVars

\* Time passes while the thread is held up: between two statements of
\* fdReady (descheduled, swapping), or in a native call past its timeout.
Delay ==
    /\ InCall
    /\ ~(Blocked /\ ~TimedOut(NativeTimeoutTicks))
    /\ obs.delay < MaxDelay
    /\ now < MaxTime
    /\ now' = now + 1
    /\ obs' = [obs EXCEPT !.delay = @ + 1]
    /\ UNCHANGED <<kind, fdPc, callVars, envVars>>
    /\ UNCHANGED timerVars

\* the descriptor becomes ready (data arrives, the handle is signalled)
BecomeReady ==
    /\ fdPc # "done"
    /\ kind \in {"poll", "select", "pipe", "other"}
    /\ ~ready
    /\ ready' = TRUE
    /\ obs' = [obs EXCEPT !.readyAt = BeforeDeadline]
    /\ UNCHANGED <<kind, fdPc, callVars, now, interruptEvent, conin, avail>>
    /\ UNCHANGED timerVars

\* the RTS signals the thread's interrupt event (SetEvent in handle_tick)
SetInterruptEvent ==
    /\ fdPc # "done"
    /\ kind \in {"char", "pipe", "other"}
    /\ ~interruptEvent
    /\ interruptEvent' = TRUE
    /\ UNCHANGED <<kind, fdPc, callVars, now, ready, conin, avail, obs>>
    /\ UNCHANGED timerVars

\* an event is appended to the console input buffer
ConsoleInput ==
    /\ fdPc # "done"
    /\ kind = "char"
    /\ Len(obs.arrived) < MaxEvents
    /\ \E e \in Events :
          /\ conin' = Append(conin, e)
          /\ obs' = [obs EXCEPT !.arrived = Append(@, e),
                       !.readyAt = IF ProperKeypress(e) /\ @ = "never"
                                   THEN BeforeDeadline ELSE @]
    /\ UNCHANGED <<kind, fdPc, callVars, now, ready, interruptEvent, avail>>
    /\ UNCHANGED timerVars

\* bytes are written to the pipe
PipeWrite ==
    /\ fdPc # "done"
    /\ kind = "pipe"
    /\ avail = 0
    /\ avail' = 1
    /\ obs' = [obs EXCEPT !.readyAt = BeforeDeadline]
    /\ UNCHANGED <<kind, fdPc, callVars, now, ready, interruptEvent, conin>>
    /\ UNCHANGED timerVars

\* ------------------------------------------------------------ fdReady
FirstPc ==
    CASE kind = "poll" -> "poll"
      [] kind = "select" -> "select"
      [] kind = "char" -> "wait_char"
      [] kind = "disk" -> "disk"
      [] kind = "pipe" -> "pipe_peek"
      [] OTHER -> "wait_gen"

\* fdReady(fd, write, msecs, isSock) is called
fdReady_call ==
    /\ fdPc = "idle"
    /\ \E m \in -1..MaxMsecs :
          /\ msecs' = m
          /\ infinite' = (m < 0)
    /\ endTime' = 0
    /\ fdPc' = "start"
    /\ obs' = [obs EXCEPT !.callStart = now]
    /\ UNCHANGED <<kind, remaining, timeoutArg, waitStart, ret, errno, now, envVars>>
    /\ UNCHANGED timerVars

\* if (msecs > 0) endTime = getProcessElapsedTime() + MSToTime(msecs);
\* Time remaining = MSToTime(msecs);
fdReady_start ==
    /\ fdPc = "start"
    /\ endTime' = IF msecs > 0 THEN now + MSToTime(msecs) ELSE endTime
    /\ remaining' = MSToTime(msecs)
    /\ fdPc' = FirstPc
    /\ UNCHANGED <<kind, msecs, infinite, timeoutArg, waitStart, ret, errno, now,
                   envVars, obs>>
    /\ UNCHANGED timerVars

\* Time now = getProcessElapsedTime(); remaining = endTime - now;
\* and back to the native call at `pc`
Recompute(from, to) ==
    /\ fdPc = from
    /\ remaining' = endTime - now
    /\ fdPc' = to
    /\ UNCHANGED <<kind, msecs, infinite, endTime, timeoutArg, waitStart, ret,
                   errno, now, envVars, obs>>
    /\ UNCHANGED timerVars

\* a native call is entered with timeout `t`
Enter(from, to, t) ==
    /\ fdPc = from
    /\ timeoutArg' = t
    /\ waitStart' = now
    /\ fdPc' = to
    /\ obs' = [obs EXCEPT !.nativeCalls = IF @ < MaxNativeCalls THEN @ + 1 ELSE @]
    /\ UNCHANGED <<kind, msecs, infinite, endTime, remaining, ret, errno, now, envVars>>
    /\ UNCHANGED timerVars

\* the native call in flight is over
NativeReturned == timeoutArg' = 0 /\ waitStart' = 0

\* variant: retries also when the time left equals the native maximum
poll_retry_atMaximum(res) == res = 0 /\ ~infinite /\ remaining >= MSToTime(INT_MAX)

\* variant: a negative result of poll() is reported as 0
poll_result_swallowed(res) == IF res > 0 THEN 1 ELSE 0

\* ---- poll path (not _WIN32)
poll_retry(res) == res = 0 /\ ~infinite /\ remaining > MSToTime(INT_MAX)

poll_result(res) == IF res > 0 THEN 1 ELSE res

poll_enter == Enter("poll", "in_poll", compute_poll_timeout(infinite, remaining))

\* poll() returns `res`, having observed `what`, leaving errno `e`
poll_returned(res, what, e) ==
    /\ errno' = e
    /\ IF poll_retry(res)
       THEN /\ fdPc' = "poll_now"
            /\ obs' = [obs EXCEPT !.lastRes = what]
            /\ UNCHANGED ret
       ELSE /\ ret' = poll_result(res)
            /\ fdPc' = "done"
            /\ obs' = [obs EXCEPT !.exit = "poll", !.lastRes = what,
                         !.failure = IF what \in {"errevent", "failed"}
                                     THEN [api |-> "poll", rc |-> what] ELSE @]
    /\ NativeReturned
    /\ UNCHANGED <<kind, msecs, infinite, endTime, remaining,
                   now, envVars>>
    /\ UNCHANGED timerVars

poll_return ==
    /\ fdPc = "in_poll"
    /\ \/ ready /\ poll_returned(1, "ready", errno)
       \/ poll_returned(1, "errevent", errno)        \* POLLNVAL, POLLERR, POLLHUP
       \/ /\ TimedOut(PollTimeoutTicks(timeoutArg)) /\ ~ready
          /\ poll_returned(0, "timeout", errno)
       \/ poll_returned(-1, "interrupted", "EINTR")  \* a signal was delivered
       \/ poll_returned(-1, "failed", "EOTHER")

poll_now == Recompute("poll_now", "poll")

\* variant: retries on every timeout of a finite wait
select_retry_always(res) == res = 0 /\ ~infinite

\* ---- select path (_WIN32, isSock)
select_retry(res) == res = 0 /\ ~infinite /\ remaining > MSToTime(INT_MAX)

select_result(res) == IF res > 0 THEN 1 ELSE res

select_enter ==
    Enter("select", "in_select", compute_windows_select_timeout(infinite, remaining))

select_returned(res, what) ==
    /\ IF select_retry(res)
       THEN /\ fdPc' = "select_now"
            /\ obs' = [obs EXCEPT !.lastRes = what]
            /\ UNCHANGED ret
       ELSE /\ ret' = select_result(res)
            /\ fdPc' = "done"
            /\ obs' = [obs EXCEPT !.exit = "select", !.lastRes = what,
                         !.failure = IF what = "failed"
                                     THEN [api |-> "select", rc |-> what] ELSE @]
    /\ NativeReturned
    /\ UNCHANGED <<kind, msecs, infinite, endTime, remaining,
                   errno, now, envVars>>
    /\ UNCHANGED timerVars

select_return ==
    /\ fdPc = "in_select"
    /\ \/ ready /\ select_returned(1, "ready")
       \/ /\ TimedOut(SelectTimeoutTicks(timeoutArg)) /\ ~ready
          /\ select_returned(0, "timeout")
       \/ select_returned(-1, "failed")              \* SOCKET_ERROR

select_now == Recompute("select_now", "select")

\* ---- WaitForObjectOrThreadInterrupt(hFile, dwMilliseconds)
\* What WaitForMultipleObjects on {hFile, interrupt event} may return when
\* hFile is signalled or not: the lowest signalled index wins, a timeout is
\* reported only when neither is signalled, and the call may fail.
WaitOutcomes(signalled) ==
    {"WAIT_FAILED"} \cup
    (IF signalled THEN {"WAIT_OBJECT_0"}
     ELSE IF interruptEvent THEN {"WAIT_OBJECT_1"}
     ELSE IF TimedOut(WaitTimeoutTicks(timeoutArg)) THEN {"WAIT_TIMEOUT"}
     ELSE {})

\* variant: every timeout of a finite wait is final
wait_timeout_final_anySlice == ~infinite

\* case WAIT_TIMEOUT: if (!infinite && remaining < MSToTime(INFINITE)) return 0;
wait_timeout_final == ~infinite /\ remaining < MSToTime(INFINITE)

\* GetLastError() values the code tells apart
ErrorCodes == {"ERROR_INVALID_HANDLE", "ERROR_INVALID_FUNCTION",
               "ERROR_BROKEN_PIPE", "ERROR_OTHER"}

\* ---- console path (FILE_TYPE_CHAR)
wait_char_enter ==
    Enter("wait_char", "in_wait_char", compute_WaitForObject_timeout(infinite, remaining))

\* what fdReady does with rc of the console wait: <<next pc, ret, errno, exit>>
wait_char_rc(rc) ==
    CASE rc = "WAIT_FAILED" -> <<"done", -1, "EOTHER", "char_wait_failed">>
      [] rc = "WAIT_TIMEOUT" ->
            IF wait_timeout_final THEN <<"done", 0, errno, "char_timeout">>
                                  ELSE <<"char_now", ret, errno, "none">>
      [] rc = "WAIT_OBJECT_0" -> <<"peek", ret, errno, "none">>
      [] OTHER -> <<"done", -1, "EINTR", "char_interrupt">>

LastRes(rc) ==
    CASE rc = "WAIT_FAILED" -> "failed"
      [] rc = "WAIT_TIMEOUT" -> "timeout"
      [] rc = "WAIT_OBJECT_0" -> "ready"
      [] OTHER -> "interrupted"

wait_char_return ==
    /\ fdPc = "in_wait_char"
    /\ \E rc \in WaitOutcomes(conin # << >>) :
          LET r == wait_char_rc(rc) IN
          /\ fdPc' = r[1]
          /\ ret' = r[2]
          /\ errno' = r[3]
          /\ obs' = [obs EXCEPT !.exit = r[4], !.lastRes = LastRes(rc),
                       !.failure = IF rc = "WAIT_FAILED"
                                   THEN [api |-> "WaitForMultipleObjects", rc |-> rc]
                                   ELSE @]
    /\ NativeReturned
    /\ UNCHANGED <<kind, msecs, infinite, endTime, remaining,
                   now, envVars>>
    /\ UNCHANGED timerVars

\* variant: every failure of the console calls is an error
console_failed_always(rc) == -1

\* PeekConsoleInput / ReadConsoleInput failed with GetLastError() = rc
console_failed(rc) ==
    IF rc = "ERROR_INVALID_HANDLE" \/ rc = "ERROR_INVALID_FUNCTION" THEN 1 ELSE -1

\* PeekConsoleInput(hFile, buf, 1, &count) and the test of what it read
peek_console ==
    /\ fdPc = "peek"
    /\ \/ \E rc \in ErrorCodes :
             /\ ret' = console_failed(rc)
             /\ errno' = IF console_failed(rc) = -1 THEN "EOTHER" ELSE errno
             /\ fdPc' = "done"
             /\ obs' = [obs EXCEPT !.exit = "char_peek_failed",
                          !.failure = [api |-> "PeekConsoleInput", rc |-> rc]]
       \/ /\ conin = << >>                          \* count == 0: wait again
          /\ fdPc' = "char_now"
          /\ UNCHANGED <<ret, errno, obs>>
       \/ /\ conin # << >> /\ ProperKeypress(Head(conin))
          /\ ret' = 1
          /\ fdPc' = "done"
          /\ obs' = [obs EXCEPT !.exit = "char_keypress"]
          /\ UNCHANGED errno
       \/ /\ conin # << >> /\ ~ProperKeypress(Head(conin))
          /\ fdPc' = "read"
          /\ UNCHANGED <<ret, errno, obs>>
    /\ UNCHANGED <<kind, msecs, infinite, endTime, remaining, timeoutArg, waitStart,
                   now, envVars>>
    /\ UNCHANGED timerVars

\* ReadConsoleInput(hFile, buf, 1, &count): removes the first record
ReadConsoleInput(q) == Tail(q)

read_console ==
    /\ fdPc = "read"
    /\ \/ \E rc \in ErrorCodes :
             /\ ret' = console_failed(rc)
             /\ errno' = IF console_failed(rc) = -1 THEN "EOTHER" ELSE errno
             /\ fdPc' = "done"
             /\ obs' = [obs EXCEPT !.exit = "char_read_failed",
                          !.failure = [api |-> "ReadConsoleInput", rc |-> rc]]
             /\ UNCHANGED conin
       \/ /\ conin # << >>
          /\ conin' = ReadConsoleInput(conin)
          /\ obs' = [obs EXCEPT !.discarded = IF Len(@) < MaxEvents
                                              THEN Append(@, Head(conin)) ELSE @]
          /\ fdPc' = "peek"
          /\ UNCHANGED <<ret, errno>>
    /\ UNCHANGED <<kind, msecs, infinite, endTime, remaining, timeoutArg, waitStart,
                   now, ready, interruptEvent, avail>>
    /\ UNCHANGED timerVars

char_now == Recompute("char_now", "wait_char")

\* ---- disk file (FILE_TYPE_DISK)
\* variant: a zero timeout on a disk file reports "not ready"
disk_return_polled ==
    /\ fdPc = "disk"
    /\ ret' = IF msecs = 0 THEN 0 ELSE 1
    /\ fdPc' = "done"
    /\ obs' = [obs EXCEPT !.exit = "disk"]
    /\ UNCHANGED <<kind, msecs, infinite, endTime, remaining, timeoutArg, waitStart,
                   errno, now, envVars>>
    /\ UNCHANGED timerVars

disk_return ==
    /\ fdPc = "disk"
    /\ ret' = 1
    /\ fdPc' = "done"
    /\ obs' = [obs EXCEPT !.exit = "disk"]
    /\ UNCHANGED <<kind, msecs, infinite, endTime, remaining, timeoutArg, waitStart,
                   errno, now, envVars>>
    /\ UNCHANGED timerVars

\* ---- pipe (FILE_TYPE_PIPE)
\* variant: no sleep before return 0
pipe_sleeps_never == FALSE

\* no new data: if (infinite || remaining > 0) Sleep(1);
pipe_sleeps == infinite \/ remaining > 0

\* variant: no failure of PeekNamedPipe falls through
pipe_failed_noFallThrough(rc) ==
    IF rc = "ERROR_BROKEN_PIPE" THEN <<"done", 1>> ELSE <<"done", -1>>

\* PeekNamedPipe failed with GetLastError() = rc: <<next pc, ret>>
pipe_failed(rc) ==
    IF rc = "ERROR_BROKEN_PIPE" THEN <<"done", 1>>
    ELSE IF rc # "ERROR_INVALID_HANDLE" /\ rc # "ERROR_INVALID_FUNCTION"
         THEN <<"done", -1>>
    ELSE <<"wait_gen", ret>>                       \* fall through to the general case

\* PeekNamedPipe(hFile, NULL, 0, NULL, &avail, NULL) and what follows it
pipe_peek ==
    /\ fdPc = "pipe_peek"
    /\ \/ \E rc \in ErrorCodes :
             /\ fdPc' = pipe_failed(rc)[1]
             /\ ret' = pipe_failed(rc)[2]
             /\ errno' = IF pipe_failed(rc) = <<"done", -1>> THEN "EOTHER" ELSE errno
             /\ obs' = [obs EXCEPT !.peeks = @ + 1,
                          !.exit = IF pipe_failed(rc)[1] = "done"
                                   THEN "pipe_peek_failed" ELSE @,
                          !.failure = [api |-> "PeekNamedPipe", rc |-> rc]]
             /\ UNCHANGED <<timeoutArg, waitStart>>
       \/ /\ avail # 0
          /\ ret' = 1
          /\ fdPc' = "done"
          /\ obs' = [obs EXCEPT !.peeks = @ + 1, !.exit = "pipe_avail",
                       !.lastRes = "avail"]
          /\ UNCHANGED <<errno, timeoutArg, waitStart>>
       \/ /\ avail = 0 /\ pipe_sleeps                \* Sleep(1) is entered
          /\ fdPc' = "in_sleep"
          /\ timeoutArg' = 1
          /\ waitStart' = now
          /\ obs' = [obs EXCEPT !.peeks = @ + 1, !.sleeps = @ + 1,
                       !.lastRes = "empty"]
          /\ UNCHANGED <<ret, errno>>
       \/ /\ avail = 0 /\ ~pipe_sleeps
          /\ ret' = 0
          /\ fdPc' = "done"
          /\ obs' = [obs EXCEPT !.peeks = @ + 1, !.exit = "pipe_empty",
                       !.lastRes = "empty"]
          /\ UNCHANGED <<errno, timeoutArg, waitStart>>
    /\ UNCHANGED <<kind, msecs, infinite, endTime, remaining, now, envVars>>
    /\ UNCHANGED timerVars

\* Sleep(1) returns; return 0;
pipe_sleep_return ==
    /\ fdPc = "in_sleep"
    /\ TimedOut(MSToTime(timeoutArg))
    /\ ret' = 0
    /\ fdPc' = "done"
    /\ obs' = [obs EXCEPT !.exit = "pipe_empty"]
    /\ NativeReturned
    /\ UNCHANGED <<kind, msecs, infinite, endTime, remaining,
                   errno, now, envVars>>
    /\ UNCHANGED timerVars

\* ---- any other handle (default case)
wait_gen_enter ==
    Enter("wait_gen", "in_wait_gen", compute_WaitForObject_timeout(infinite, remaining))

\* variant: the interrupt event is taken for the handle
wait_gen_rc_anyObject(rc) ==
    CASE rc = "WAIT_FAILED" -> <<"done", -1, "EOTHER", "gen_wait_failed">>
      [] rc = "WAIT_TIMEOUT" ->
            IF wait_timeout_final THEN <<"done", 0, errno, "gen_timeout">>
                                  ELSE <<"gen_now", ret, errno, "none">>
      [] OTHER -> <<"done", 1, errno, "gen_ready">>

wait_gen_rc(rc) ==
    CASE rc = "WAIT_FAILED" -> <<"done", -1, "EOTHER", "gen_wait_failed">>
      [] rc = "WAIT_TIMEOUT" ->
            IF wait_timeout_final THEN <<"done", 0, errno, "gen_timeout">>
                                  ELSE <<"gen_now", ret, errno, "none">>
      [] rc = "WAIT_OBJECT_0" -> <<"done", 1, errno, "gen_ready">>
      [] OTHER -> <<"done", -1, "EINTR", "gen_interrupt">>

wait_gen_return ==
    /\ fdPc = "in_wait_gen"
    /\ \E rc \in WaitOutcomes(ready) :
          LET r == wait_gen_rc(rc) IN
          /\ fdPc' = r[1]
          /\ ret' = r[2]
          /\ errno' = r[3]
          /\ obs' = [obs EXCEPT !.exit = r[4], !.lastRes = LastRes(rc),
                       !.failure = IF rc = "WAIT_FAILED"
                                   THEN [api |-> "WaitForMultipleObjects", rc |-> rc]
                                   ELSE @]
    /\ NativeReturned
    /\ UNCHANGED <<kind, msecs, infinite, endTime, remaining,
                   now, envVars>>
    /\ UNCHANGED timerVars

gen_now == Recompute("gen_now", "wait_gen")

FdInit ==
    /\ TimerQuiet
    /\ kind \in Kinds
    /\ fdPc = "idle" /\ msecs = 0 /\ infinite = FALSE
    /\ endTime = 0 /\ remaining = 0 /\ timeoutArg = 0 /\ waitStart = 0
    /\ ret = 0 /\ errno = "none" /\ now = 0 /\ ready = FALSE
    /\ interruptEvent = FALSE /\ conin = << >> /\ avail = 0 /\ obs = ObsInit

FdNext ==
    \/ ClockTick
    \/ Delay
    \/ BecomeReady
    \/ SetInterruptEvent
    \/ ConsoleInput
    \/ PipeWrite
    \/ fdReady_call
    \/ fdReady_start
    \/ poll_enter
    \/ poll_return
    \/ poll_now
    \/ select_enter
    \/ select_return
    \/ select_now
    \/ wait_char_enter
    \/ wait_char_return
    \/ peek_console
    \/ read_console
    \/ char_now
    \/ disk_return
    \/ pipe_peek
    \/ pipe_sleep_return
    \/ wait_gen_enter
    \/ wait_gen_return
    \/ gen_now

FdSpec == FdInit /\ [][FdNext]_vars

\* ------------------------------------------------------------ ApiSpec
\* Timer.c as its callers see it: after initTimer() any thread may call
\* startTimer() or stopTimer() at any time, Timer.c itself keeps no record of
\* who holds a stop, and the ticker delivers ticks while it runs.
ApiStartTimer ==
    /\ mainPc = "inited"
    /\ tickPc = "idle"
    /\ startTimer
    /\ UNCHANGED fdVars
    /\ UNCHANGED <<cfg, ticks_to_ctxt_switch, ticks_to_gc, recent_activity,
                   mainPc, workerPc, tickPc, schedPc, hist>>

ApiStopTimer ==
    /\ mainPc = "inited"
    /\ tickPc = "idle"
    /\ stopTimer
    /\ UNCHANGED fdVars
    /\ UNCHANGED <<cfg, ticks_to_ctxt_switch, ticks_to_gc, recent_activity,
                   mainPc, workerPc, tickPc, schedPc, hist>>

ApiNext ==
    \/ initTimer
    \/ ApiStartTimer
    \/ ApiStopTimer
    \/ handle_tick
    \/ TickStopTicker

ApiSpec == TimerInit /\ [][ApiNext]_vars

\* ------------------------------------------------------------ FloodSpec
\* fdReady on a console whose input never dries up: whenever the buffer is
\* empty another event that is no key event may arrive, any number of times. The thread keeps
\* running and the clock keeps going while a wait is pending.
FloodInput ==
    /\ kind = "char"
    /\ InCall
    /\ conin = << >>
    /\ conin' = <<[EventType |-> "MOUSE_EVENT", bKeyDown |-> FALSE, AsciiChar |-> "NUL"]>>
    /\ UNCHANGED <<kind, fdPc, callVars, now, ready, interruptEvent, avail, obs>>
    /\ UNCHANGED timerVars

\* the statements of fdReady on the console path
FloodThread ==
    \/ fdReady_start
    \/ wait_char_enter
    \/ wait_char_return
    \/ peek_console
    \/ read_console
    \/ char_now

FloodInit ==
    /\ TimerQuiet
    /\ kind = "char"
    /\ fdPc = "idle" /\ msecs = 0 /\ infinite = FALSE
    /\ endTime = 0 /\ remaining = 0 /\ timeoutArg = 0 /\ waitStart = 0
    /\ ret = 0 /\ errno = "none" /\ now = 0 /\ ready = FALSE
    /\ interruptEvent = FALSE /\ conin = << >> /\ avail = 0 /\ obs = ObsInit

FloodNext ==
    \/ fdReady_call
    \/ FloodThread
    \/ ClockTick
    \/ Delay
    \/ SetInterruptEvent
    \/ FloodInput

FloodSpec ==
    /\ FloodInit /\ [][FloodNext]_vars
    /\ WF_vars(FloodThread) /\ WF_vars(ClockTick)

\* =================================================================== claims
\* No startTimer()/stopTimer() call is between its atomic step and its ticker call.
NoTimerCallInProgress ==
    /\ mainPc = "up"
    /\ \A w \in Workers : workerPc[w] \in {"idle", "stopped"}
    /\ tickPc = "idle"
    /\ schedPc = "idle"

\* C1: with tickInterval != 0, at every point where no startTimer()/stopTimer()
\* call is in progress, the platform ticker is armed if and only if
\* timer_disabled == 0, for any interleaving of the concurrent calls.
C1_ArmedIffEnabled ==
    (NoTimerCallInProgress /\ cfg.tickInterval # 0)
        => ((ticker = "running") <=> (timer_disabled = 0))

\* C4 as stated: after N = idleGCDelayTime / tickInterval consecutive ticks
\* without activity exactly one idle-GC request has been issued (and none
\* before), after which the timer is stopped unless profiling is active.
C4_IdleGCAfterNTicks ==
    (cfg.tickInterval # 0 /\ hist.idleTicks >= 1) =>
        LET N == cfg.idleGCDelayTime \div cfg.tickInterval IN
        /\ cfg.doIdleGC =>
              hist.idleGCRequests = (IF hist.idleTicks >= N THEN 1 ELSE 0)
        /\ (~cfg.doIdleGC /\ hist.idleActions = 1 /\ ~cfg.profiling) =>
              hist.tickStops = 1

\* C4 as amended: without activity the idle action happens exactly once, on
\* tick N + 2 of the idle period (one tick arms the countdown, N ticks run it
\* down, the next tick acts).  With doIdleGC the action is the idle-GC request
\* (ACTIVITY_INACTIVE) and handle_tick leaves the timer running; without it no
\* GC is requested, the state is ACTIVITY_DONE_GC and handle_tick calls
\* stopTimer() once unless profiling is active.
C4_IdleActionOnce ==
    cfg.tickInterval # 0 =>
        LET N == cfg.idleGCDelayTime \div cfg.tickInterval IN
        /\ hist.idleActions = (IF hist.idleTicks >= N + 2 THEN 1 ELSE 0)
        /\ hist.idleGCRequests = (IF cfg.doIdleGC THEN hist.idleActions ELSE 0)
        /\ hist.wakeUps = (IF cfg.threaded THEN hist.idleGCRequests ELSE 0)
        /\ hist.tickStops = (IF ~cfg.doIdleGC /\ ~cfg.profiling
                             THEN hist.idleActions ELSE 0)
        /\ hist.idleActions = 1 =>
              recent_activity = (IF cfg.doIdleGC THEN ACTIVITY_INACTIVE
                                                 ELSE ACTIVITY_DONE_GC)

\* ticks go on after the one idle-GC request of an idle period with N > 0
C4_Witness ==
    /\ cfg.tickInterval # 0
    /\ cfg.idleGCDelayTime \div cfg.tickInterval > 0
    /\ hist.idleTicks > (cfg.idleGCDelayTime \div cfg.tickInterval) + 2
    /\ hist.idleGCRequests = 1

\* ------------------------------------------------------- fdReady claims
Returned == fdPc = "done"

\* monotonic time since fdReady was called
Elapsed == now - obs.callStart

\* a genuine key-down: a KEY_EVENT, key down, with a non-null character
GenuineKeyDown(e) ==
    e.EventType = "KEY_EVENT" /\ e.bKeyDown = TRUE /\ e.AsciiChar # "NUL"

\* the descriptor has not become ready since before the call
NeverReady ==
    CASE kind \in {"poll", "select", "other"} -> ~ready
      [] kind = "pipe" -> avail = 0 /\ ~ready
      [] kind = "char" -> \A i \in 1..Len(obs.arrived) : ~GenuineKeyDown(obs.arrived[i])
      [] OTHER -> FALSE

C3_InterruptReturnsEINTR ==
    [][ (fdPc \in {"in_poll", "in_wait_char", "in_wait_gen"} /\ fdPc' # fdPc) =>
          /\ obs'.lastRes = "interrupted" =>
                (fdPc' = "done" /\ ret' = -1 /\ errno' = "EINTR"
                 /\ obs'.nativeCalls = obs.nativeCalls /\ now' = now)
          /\ ( /\ fdPc \in {"in_wait_char", "in_wait_gen"}
               /\ interruptEvent
               /\ ~(IF fdPc = "in_wait_char" THEN conin # << >> ELSE ready) ) =>
                (fdPc' = "done" /\ ret' = -1
                 /\ obs'.lastRes \in {"interrupted", "failed"}) ]_vars

\* an indefinite wait on the console was cut short by the interrupt event
C3_Witness ==
    /\ Returned /\ infinite /\ kind = "char" /\ obs.lastRes = "interrupted"
    /\ ret = -1 /\ errno = "EINTR" /\ obs.nativeCalls = 1 /\ now > 0

\* ---- C5
\* the descriptor became ready strictly before the deadline of the call
ReadyEarly == obs.readyAt = "early" /\ (kind = "pipe" => avail # 0)

\* no native call of this fdReady call failed or was interrupted
Undisturbed == obs.failure.api = "none" /\ obs.lastRes # "interrupted"

\* the longest time one native call covers, and how many such slices the
\* requested duration holds
SliceTicks ==
    IF kind \in {"poll", "select"} THEN MSToTime(INT_MAX) ELSE MSToTime(INFINITE - 1)
Slices == IF infinite THEN 0 ELSE (MSToTime(msecs) + SliceTicks - 1) \div SliceTicks

C7_ConsoleDiscardsUpToKeyDown ==
    kind = "char" =>
        /\ obs.arrived = obs.discarded \o conin
        /\ \A i \in 1..Len(obs.discarded) : ~GenuineKeyDown(obs.discarded[i])
        /\ fdPc = "read" => (conin # << >> /\ ~GenuineKeyDown(Head(conin)))
        /\ obs.exit = "char_keypress" =>
              (ret = 1 /\ conin # << >> /\ GenuineKeyDown(Head(conin)))

\* an event was discarded and the key-down behind it reported and left in place
C7_Witness ==
    /\ Returned /\ kind = "char" /\ obs.exit = "char_keypress" /\ ret = 1
    /\ Len(obs.discarded) = 1 /\ Len(conin) = 1 /\ GenuineKeyDown(conin[1])

C9_FailureYieldsError == (Returned /\ obs.failure.api # "none") => ret = -1

InvalidHandleCodes == {"ERROR_INVALID_HANDLE", "ERROR_INVALID_FUNCTION"}

\* the failures fdReady answers with 1
FailureReportedReady ==
    \/ obs.failure.api = "poll" /\ obs.failure.rc = "errevent"
    \/ /\ obs.failure.api \in {"PeekConsoleInput", "ReadConsoleInput"}
       /\ obs.failure.rc \in InvalidHandleCodes
    \/ obs.failure.api = "PeekNamedPipe" /\ obs.failure.rc = "ERROR_BROKEN_PIPE"

\* the failure after which fdReady goes on to the general case
FailureFallsThrough ==
    obs.failure.api = "PeekNamedPipe" /\ obs.failure.rc \in InvalidHandleCodes

\* C9 as amended: a failing poll() or select(), WAIT_FAILED, and a
\* PeekConsoleInput/ReadConsoleInput/PeekNamedPipe failing with any other
\* error yield -1; poll() flagging the descriptor in revents,
\* PeekConsoleInput/ReadConsoleInput failing with ERROR_INVALID_HANDLE or
\* ERROR_INVALID_FUNCTION and PeekNamedPipe failing with ERROR_BROKEN_PIPE
\* yield 1; PeekNamedPipe failing with ERROR_INVALID_HANDLE or
\* ERROR_INVALID_FUNCTION yields what the wait of the general case yields.
C9_FailureByKind ==
    (Returned /\ obs.failure.api # "none") =>
        IF FailureFallsThrough
        THEN obs.exit \in {"gen_timeout", "gen_ready", "gen_interrupt"}
        ELSE ret = (IF FailureReportedReady THEN 1 ELSE -1)

\* discarding a console event failed with an error that is not an invalid handle
C9_Witness ==
    /\ Returned /\ kind = "char" /\ ret = -1
    /\ obs.failure = [api |-> "ReadConsoleInput", rc |-> "ERROR_OTHER"]

OutstandingStops == Cardinality({w \in Workers : workerPc[w] = "stopped"})

\* C11: with calls that do not overlap, after initTimer() and one
\* startTimer(), timer_disabled counts the outstanding stopTimer() calls;
\* with tickInterval != 0 the ticker runs exactly when that count is 0, so an
\* inner stopTimer()/startTimer() pair never starts it while an outer stop is
\* outstanding, and k stops followed by k starts leave it running with
\* timer_disabled == 0; the ticker is started only by the call that brings
\* timer_disabled to 0 and stopped only by the call that takes it from 0 to 1.
C11_RefcountNesting ==
    /\ []( mainPc = "up" =>
             /\ timer_disabled = OutstandingStops
             /\ cfg.tickInterval # 0 => ((ticker = "running") <=> (timer_disabled = 0)) )
    /\ [][ (mainPc # "boot" /\ ticker' # ticker) =>
             \/ ticker' = "running" /\ timer_disabled' = 0
             \/ ticker' = "stopped" /\ timer_disabled = 0 /\ timer_disabled' = 1 ]_vars

\* every thread has stopped the timer, one inside the other, and started it again
C11_Witness ==
    /\ cfg.tickInterval # 0 /\ mainPc = "up"
    /\ \A w \in Workers : workerPc[w] = "restarted"
    /\ timer_disabled = 0 /\ ticker = "running"

Deadline == IF msecs > 0 THEN endTime ELSE obs.callStart

\* C13: on the poll path, under any delays between the statements of
\* fdReady, every return of 0 is the step in which a poll() call reports a
\* timeout, and that poll() returns at a time >= endTime; the clock reading
\* taken after a poll() only leads back into poll(), never to a return.
C13_NotReadyOnlyFromLatePoll ==
    /\ [][ (kind = "poll" /\ fdPc # "done" /\ fdPc' = "done" /\ ret' = 0) =>
              /\ fdPc = "in_poll" /\ obs'.lastRes = "timeout"
              /\ now' = now /\ now >= Deadline
              /\ now - waitStart >= PollTimeoutTicks(timeoutArg) ]_vars
    /\ [][ (kind = "poll" /\ fdPc = "poll_now" /\ fdPc' # fdPc) =>
              (fdPc' = "poll" /\ ret' = ret /\ remaining' = endTime - now) ]_vars

\* 0 after more than one poll() and a delay between the statements
C13_Witness ==
    /\ Returned /\ kind = "poll" /\ ret = 0 /\ msecs > 0
    /\ obs.nativeCalls > 1 /\ obs.delay > 0 /\ now >= endTime

\* ---- C14
\* a step that is one delivery of the tick
TickStep == hist'.idleTicks = hist.idleTicks + 1

CtxtSwitchRequested(calls) ==
    \E i \in 1..Len(calls) : calls[i] = "contextSwitchAllCapabilities"

\* C14: with ctxtSwitchTicks = C > 0 every tick decrements
\* ticks_to_ctxt_switch, and the tick on which it reaches 0 puts it back to C
\* and calls contextSwitchAllCapabilities(); that is the first tick and then
\* every C-th tick after a call, so any C consecutive ticks hold exactly one
\* call. With C = 0 no tick calls it and the counter is not touched.
C14_CtxtSwitchEveryCTicks ==
    /\ [][ (TickStep /\ cfg.ctxtSwitchTicks > 0) =>
              LET C == cfg.ctxtSwitchTicks
                  req == CtxtSwitchRequested(hist'.calls)
              IN /\ req <=> (ticks_to_ctxt_switch <= 1)
                 /\ req <=> (~hist.ticked \/ hist.sinceCtxtSwitch = C - 1)
                 /\ ticks_to_ctxt_switch' =
                       IF req THEN C ELSE ticks_to_ctxt_switch - 1 ]_vars
    /\ [][ (TickStep /\ cfg.ctxtSwitchTicks = 0) =>
              /\ ~CtxtSwitchRequested(hist'.calls)
              /\ ticks_to_ctxt_switch' = ticks_to_ctxt_switch ]_vars
    /\ [][ ~TickStep => /\ ticks_to_ctxt_switch' = ticks_to_ctxt_switch
                        /\ hist'.calls = hist.calls ]_vars
    /\ []( (hist.ticked /\ cfg.ctxtSwitchTicks > 0) =>
              ticks_to_ctxt_switch = cfg.ctxtSwitchTicks - hist.sinceCtxtSwitch )
    /\ []( cfg.ctxtSwitchTicks = 0 => hist.calls = << >> )

\* a period of 2: the third tick of an idle period has just asked for a
\* context switch
C14_Witness ==
    /\ cfg.ctxtSwitchTicks = 2 /\ hist.idleTicks = 3
    /\ CtxtSwitchRequested(hist.calls) /\ hist.sinceCtxtSwitch = 0
    /\ ticks_to_ctxt_switch = 2

\* ---- C15
\* builds on which the tick does not itself interrupt a blocking call
NeedsExplicitInterrupt == ~cfg.threaded /\ (cfg.mingw32 \/ cfg.pthreadItimer)

IsInterruptCall(c) == c \in {"SetEvent", "interruptOSThreadTimer"}

\* C15: on a non-threaded build for Windows or with a pthread ticker, the
\* calls of a tick that asks for a context switch are
\* contextSwitchAllCapabilities() first and then, still inside handle_tick,
\* interruptOSThreadTimer() (preceded by SetEvent() on Windows); a tick that
\* does not ask for a context switch makes none of these calls.
C15_InterruptFollowsCtxtSwitch ==
    /\ NeedsExplicitInterrupt =>
          IF CtxtSwitchRequested(hist.calls)
          THEN /\ hist.calls[1] = "contextSwitchAllCapabilities"
               /\ Len(hist.calls) >= 2
               /\ \A i \in 2..Len(hist.calls) : IsInterruptCall(hist.calls[i])
               /\ hist.calls[Len(hist.calls)] = "interruptOSThreadTimer"
               /\ cfg.mingw32 => hist.calls[2] = "SetEvent"
          ELSE hist.calls = << >>
    /\ (\E i \in 1..Len(hist.calls) : IsInterruptCall(hist.calls[i]))
          => CtxtSwitchRequested(hist.calls)

\* a Windows tick that asked for a context switch, and a later one that did not
C15_Witness ==
    /\ NeedsExplicitInterrupt /\ cfg.mingw32 /\ hist.ticked
    /\ hist.calls = <<"contextSwitchAllCapabilities", "SetEvent",
                      "interruptOSThreadTimer">>

\* ---- C16
\* C16: what one tick does to the idle-GC state. ACTIVITY_YES becomes
\* ACTIVITY_MAYBE_NO with ticks_to_gc = idleGCDelayTime / tickInterval;
\* ACTIVITY_MAYBE_NO with ticks_to_gc > 0 only counts ticks_to_gc down by one;
\* ACTIVITY_MAYBE_NO with ticks_to_gc = 0 becomes ACTIVITY_INACTIVE, which is
\* the request for the idle GC (with wakeUpRts() on the threaded RTS), if
\* doIdleGC and ACTIVITY_DONE_GC otherwise; ACTIVITY_INACTIVE and
\* ACTIVITY_DONE_GC are left as they are by every tick, and the only other
\* change of recent_activity is the scheduler's reset to ACTIVITY_YES.
C16_IdleStateMachine ==
    /\ [][ TickStep =>
            CASE recent_activity = ACTIVITY_YES ->
                   /\ recent_activity' = ACTIVITY_MAYBE_NO
                   /\ ticks_to_gc' = cfg.idleGCDelayTime \div cfg.tickInterval
                   /\ hist'.idleActions = hist.idleActions
                   /\ timer_disabled' = timer_disabled
              [] recent_activity = ACTIVITY_MAYBE_NO /\ ticks_to_gc > 0 ->
                   /\ recent_activity' = ACTIVITY_MAYBE_NO
                   /\ ticks_to_gc' = ticks_to_gc - 1
                   /\ hist'.idleActions = hist.idleActions
                   /\ timer_disabled' = timer_disabled
              [] recent_activity = ACTIVITY_MAYBE_NO /\ ticks_to_gc = 0 ->
                   /\ ticks_to_gc' = 0
                   /\ IF cfg.doIdleGC
                      THEN /\ recent_activity' = ACTIVITY_INACTIVE
                           /\ hist'.idleGCRequests = hist.idleGCRequests + 1
                           /\ hist'.wakeUps =
                                 hist.wakeUps + (IF cfg.threaded THEN 1 ELSE 0)
                      ELSE /\ recent_activity' = ACTIVITY_DONE_GC
                           /\ hist'.idleGCRequests = hist.idleGCRequests
                           /\ hist'.wakeUps = hist.wakeUps
              [] OTHER ->
                   /\ recent_activity \in {ACTIVITY_INACTIVE, ACTIVITY_DONE_GC}
                   /\ recent_activity' = recent_activity
                   /\ ticks_to_gc' = ticks_to_gc
                   /\ hist'.idleActions = hist.idleActions
                   /\ hist'.idleGCRequests = hist.idleGCRequests
                   /\ timer_disabled' = timer_disabled ]_vars
    /\ [][ (~TickStep /\ recent_activity' # recent_activity) =>
              recent_activity' = ACTIVITY_YES ]_vars
    /\ [][ ~TickStep => ticks_to_gc' = ticks_to_gc ]_vars
    /\ []( ticks_to_gc >= 0 )

\* a countdown from 2 has run out, the idle GC was requested once, and two
\* more ticks have gone by in ACTIVITY_INACTIVE
C16_Witness ==
    /\ cfg.tickInterval = 1 /\ cfg.idleGCDelayTime = 2 /\ cfg.doIdleGC
    /\ recent_activity = ACTIVITY_INACTIVE /\ ticks_to_gc = 0
    /\ hist.idleGCRequests = 1 /\ hist.idleTicks = 6

\* ---- C17
\* C17: a tick changes timer_disabled (its stopTimer()) only when it takes
\* recent_activity from ACTIVITY_MAYBE_NO to ACTIVITY_DONE_GC, which needs
\* doIdleGC off, and profiling is not active; the change is an increment by
\* one. Between two resets of the activity by the scheduler that happens at
\* most once, and never with doIdleGC on or with profiling active.
C17_TickStopsTimerOnce ==
    /\ [][ TickStep =>
              /\ timer_disabled' # timer_disabled =>
                    /\ recent_activity = ACTIVITY_MAYBE_NO
                    /\ recent_activity' = ACTIVITY_DONE_GC
                    /\ ~cfg.doIdleGC /\ ~cfg.profiling
                    /\ timer_disabled' = (timer_disabled + 1) % StgWordMod
                    /\ hist'.tickStops = hist.tickStops + 1
              /\ timer_disabled' = timer_disabled =>
                    hist'.tickStops = hist.tickStops ]_vars
    /\ [][ (tickPc' = "stopTicker" /\ tickPc # "stopTicker") =>
              (TickStep /\ timer_disabled' # timer_disabled) ]_vars
    /\ []( hist.tickStops <= 1 )
    /\ []( (cfg.doIdleGC \/ cfg.profiling) => hist.tickStops = 0 )

\* the tick that found the countdown at 0 with idle GC off and no profiling
\* has stopped the timer
C17_Witness ==
    /\ ~cfg.doIdleGC /\ ~cfg.profiling /\ recent_activity = ACTIVITY_DONE_GC
    /\ hist.tickStops = 1 /\ hist.idleActions = 1 /\ timer_disabled = 1
    /\ ticker = "stopped"

\* ---- C18
\* C18: for a disk file fdReady returns 1 for every msecs (negative, zero,
\* positive) in the step that follows the dispatch on the file type: no
\* native wait, no peek, no sleep, no second look at the clock, and no time
\* spent other than the delays between its statements.
C18_DiskAlwaysReady ==
    /\ []( (Returned /\ kind = "disk") =>
              /\ ret = 1 /\ errno = "none" /\ obs.exit = "disk"
              /\ obs.nativeCalls = 0 /\ obs.peeks = 0 /\ obs.sleeps = 0
              /\ Elapsed = obs.delay )
    /\ []( kind = "disk" => fdPc \in {"idle", "start", "disk", "done"} )
    /\ [][ (kind = "disk" /\ fdPc = "disk" /\ fdPc' # fdPc) =>
              (fdPc' = "done" /\ ret' = 1 /\ now' = now) ]_vars

\* a disk file reported ready at once although the timeout was positive
C18_Witness ==
    /\ Returned /\ kind = "disk" /\ ret = 1
    /\ msecs = MaxMsecs /\ Elapsed = 0 /\ now < endTime

\* ---- C19
GenericExits == {"gen_ready", "gen_timeout", "gen_interrupt", "gen_wait_failed"}

\* the value fdReady returns at each exit of the generic wait
GenericResult(exit) ==
    CASE exit = "gen_ready" -> 1
      [] exit = "gen_timeout" -> 0
      [] OTHER -> -1

\* C19: when PeekNamedPipe fails, ERROR_BROKEN_PIPE makes fdReady return 1;
\* ERROR_INVALID_HANDLE and ERROR_INVALID_FUNCTION return nothing and go on
\* to the generic wait on {handle, interrupt event}, whose result is what
\* fdReady then returns; every other error makes fdReady return -1.
C19_PipePeekFailure ==
    /\ [][ (fdPc = "pipe_peek" /\ obs'.failure.api = "PeekNamedPipe") =>
              LET rc == obs'.failure.rc IN
              /\ obs'.peeks = 1 /\ obs'.sleeps = 0 /\ now' = now
              /\ CASE rc = "ERROR_BROKEN_PIPE" -> fdPc' = "done" /\ ret' = 1
                   [] rc \in {"ERROR_INVALID_HANDLE", "ERROR_INVALID_FUNCTION"} ->
                        /\ fdPc' = "wait_gen" /\ ret' = ret /\ errno' = errno
                        /\ obs'.exit = "none"
                   [] OTHER -> fdPc' = "done" /\ ret' = -1 ]_vars
    /\ []( (kind = "pipe" /\ fdPc \in {"wait_gen", "in_wait_gen", "gen_now"}) =>
              /\ obs.failure.api = "PeekNamedPipe"
              /\ obs.failure.rc \in {"ERROR_INVALID_HANDLE", "ERROR_INVALID_FUNCTION"} )
    /\ []( (Returned /\ kind = "pipe" /\ obs.exit \in GenericExits) =>
              /\ obs.peeks = 1 /\ obs.nativeCalls >= 1
              /\ ret = GenericResult(obs.exit) )
    /\ []( (Returned /\ kind = "pipe" /\ obs.exit = "pipe_peek_failed") =>
              /\ obs.nativeCalls = 0
              /\ ret = IF obs.failure.rc = "ERROR_BROKEN_PIPE" THEN 1 ELSE -1 )

\* the peek failed with ERROR_INVALID_FUNCTION and the generic wait that
\* followed timed out
C19_Witness ==
    /\ Returned /\ kind = "pipe" /\ obs.peeks = 1
    /\ obs.failure = [api |-> "PeekNamedPipe", rc |-> "ERROR_INVALID_FUNCTION"]
    /\ obs.exit = "gen_timeout" /\ ret = 0 /\ msecs > 0

\* ---- C20
\* C20: the generic wait returns 1 only for a signalled handle, -1 with EINTR
\* when the interrupt event and not the handle is signalled, -1 when the wait
\* failed. On WAIT_TIMEOUT it returns 0 if the timeout is finite and remaining,
\* as it was before that wait, is below MSToTime(INFINITE); otherwise it sets
\* remaining = endTime - now and waits again. So 0 is returned only when the
\* deadline has passed and the whole of msecs has been waited.
C20_GenericWait ==
    /\ [][ (fdPc = "in_wait_gen" /\ fdPc' # fdPc) =>
              LET res == obs'.lastRes IN
              /\ res \in {"ready", "interrupted", "failed", "timeout"}
              /\ res = "ready" => (ready /\ fdPc' = "done" /\ ret' = 1)
              /\ res = "interrupted" =>
                    /\ ~ready /\ interruptEvent
                    /\ fdPc' = "done" /\ ret' = -1 /\ errno' = "EINTR"
              /\ res = "failed" => (fdPc' = "done" /\ ret' = -1)
              /\ res = "timeout" =>
                    /\ ~ready /\ ~interruptEvent
                    /\ IF ~infinite /\ remaining < MSToTime(INFINITE)
                       THEN fdPc' = "done" /\ ret' = 0
                       ELSE /\ fdPc' = "gen_now" /\ ret' = ret
                            /\ remaining' = remaining ]_vars
    /\ [][ (fdPc = "gen_now" /\ fdPc' # fdPc) =>
              (fdPc' = "wait_gen" /\ remaining' = endTime - now) ]_vars
    /\ []( (Returned /\ obs.exit = "gen_timeout") =>
              /\ ret = 0 /\ ~infinite
              /\ now >= Deadline
              /\ Elapsed >= MSToTime(msecs) )
    /\ []( (Returned /\ obs.exit \in GenericExits) => ret = GenericResult(obs.exit) )

\* a timeout at the native maximum: 0 after a second wait
C20_Witness ==
    /\ Returned /\ kind = "other" /\ obs.exit = "gen_timeout" /\ ret = 0
    /\ msecs = MaxMsecs /\ obs.nativeCalls >= 2 /\ now >= endTime

\* ---- C21
\* C21: whenever the timeout is finite, compute_WaitForObject_timeout applied
\* to the current value of remaining is not INFINITE, and no finite call is
\* inside a native wait that was given INFINITE as its timeout.
C21_FiniteNeverINFINITE ==
    ~infinite =>
       /\ compute_WaitForObject_timeout(infinite, remaining) # INFINITE
       /\ fdPc \in {"in_wait_char", "in_wait_gen"} => timeoutArg # INFINITE

\* ---- C22
\* C22: a console call with a finite timeout whose deadline has passed
\* returns, whatever keeps arriving in the input buffer. (msecs is positive
\* and below INFINITE, so that no wait is entered with INFINITE as its timeout.)
C22_DeadlineNotStarved ==
    (kind = "char" /\ fdPc \notin {"idle", "start", "done"}
       /\ msecs > 0 /\ msecs < INFINITE /\ now >= endTime) ~> Returned

\* ---- C23
\* stopTimer() calls that have incremented timer_disabled and whose
\* startTimer() has not yet decremented it
StopsHeld == Cardinality({w \in Workers : workerPc[w] \in {"stop_inc", "stopped"}})

\* C23: with tickInterval = 0 none of initTimer, startTimer, stopTimer and
\* exitTimer touches the ticker, which stays as it was before initTimer, and
\* no tick is delivered; timer_disabled is still set to 1 by initTimer,
\* decremented by every startTimer() and incremented by every stopTimer().
C23_ZeroIntervalNoTicker ==
    /\ []( cfg.tickInterval = 0 =>
             /\ ticker = "none" /\ ~hist.ticked
             /\ timer_disabled = CASE mainPc = "boot" -> 0
                                   [] mainPc = "inited" -> 1
                                   [] OTHER -> StopsHeld )
    /\ [][ cfg.tickInterval = 0 =>
             /\ ticker' = ticker
             /\ (mainPc = "boot" /\ mainPc' # mainPc) => timer_disabled' = 1
             /\ (mainPc = "inited" /\ mainPc' # mainPc) =>
                   timer_disabled' = (timer_disabled - 1) % StgWordMod
             /\ \A w \in Workers :
                   /\ (workerPc[w] = "idle" /\ workerPc'[w] # "idle") =>
                         timer_disabled' = (timer_disabled + 1) % StgWordMod
                   /\ (workerPc[w] = "stopped" /\ workerPc'[w] # "stopped") =>
                         timer_disabled' = (timer_disabled - 1) % StgWordMod ]_vars

\* no interval, two stops outstanding: the counter is 2 and there is no ticker
C23_Witness ==
    /\ cfg.tickInterval = 0 /\ mainPc = "up" /\ ticker = "none"
    /\ timer_disabled = 2 /\ \A w \in Workers : workerPc[w] = "stopped"

RemainingRange == (0 - MaxTime) .. MSToTime(MaxMsecs)

\* the smallest whole number of milliseconds that is >= rem
IsCeilingMs(t, rem) ==
    /\ MSToTime(t) >= rem
    /\ MSToTime(t - 1) < rem

\* C25: compute_poll_timeout returns -1 when infinite, whatever remaining
\* is; when finite it returns 0 for remaining < 0, INT_MAX for remaining
\* above MSToTime(INT_MAX), and otherwise the smallest whole number of
\* milliseconds >= remaining, so always a value in 0 .. INT_MAX, with no
\* intermediate value above INT_MAX. The timeout handed to poll() is that
\* value.
C25_PollTimeoutNumerics ==
    /\ \A rem \in RemainingRange \cup {remaining} :
          /\ compute_poll_timeout(TRUE, rem) = -1
          /\ LET t == compute_poll_timeout(FALSE, rem) IN
             /\ t \in 0 .. INT_MAX
             /\ rem < 0 => t = 0
             /\ rem > MSToTime(INT_MAX) => t = INT_MAX
             /\ (0 <= rem /\ rem <= MSToTime(INT_MAX)) =>
                   /\ IsCeilingMs(t, rem)
                   /\ TimeToMS(rem) <= INT_MAX
                   /\ (rem # MSToTime(TimeToMS(rem))) => TimeToMS(rem) + 1 <= INT_MAX
    /\ fdPc = "in_poll" => timeoutArg = compute_poll_timeout(infinite, remaining)

\* poll() entered with a remaining time that has a fractional millisecond
\* inside the range: the timeout is the next whole millisecond
C25_Witness ==
    /\ fdPc = "in_poll" /\ ~infinite
    /\ 0 < remaining /\ remaining < MSToTime(INT_MAX)
    /\ remaining # MSToTime(TimeToMS(remaining))
    /\ timeoutArg = TimeToMS(remaining) + 1

\* ---- C26
\* C26: with ctxtSwitchTicks = C > 0, once a tick has been delivered
\* ticks_to_ctxt_switch is between 1 and C, in particular right after every
\* tick, whatever resets of the activity happen in between; ticks_to_gc is
\* never negative, and a tick that lowers it finds it above 0.
C26_CounterBounds ==
    /\ []( (hist.ticked /\ cfg.ctxtSwitchTicks > 0) =>
              (1 <= ticks_to_ctxt_switch /\ ticks_to_ctxt_switch <= cfg.ctxtSwitchTicks) )
    /\ [][ (TickStep /\ cfg.ctxtSwitchTicks > 0) =>
              (1 <= ticks_to_ctxt_switch' /\ ticks_to_ctxt_switch' <= cfg.ctxtSwitchTicks) ]_vars
    /\ []( ticks_to_gc >= 0 )
    /\ [][ ticks_to_gc' < ticks_to_gc =>
              (TickStep /\ ticks_to_gc > 0 /\ ticks_to_gc' = ticks_to_gc - 1) ]_vars

\* the second tick of an idle period: the countdown is running and the
\* context-switch counter is at its lowest
C26_Witness ==
    /\ cfg.ctxtSwitchTicks = 2 /\ ticks_to_ctxt_switch = 1 /\ hist.ticked
    /\ recent_activity = ACTIVITY_MAYBE_NO /\ ticks_to_gc = 1
    /\ hist.idleTicks = 2 /\ hist.sinceCtxtSwitch = 1

====
